---- MODULE Spec2Model ----
(***************************************************************************)
(* The community bulletin board of the Lumina Health API: the two handlers *)
(* of src/main.py (create_community_post, get_community_posts), the        *)
(* request schema CommunityPostIn, and the document store adapter they     *)
(* call (module database, which is imported by src/main.py).               *)
(*                                                                         *)
(* JSON values.  A request body or a document is a function from the names *)
(* of the fields it contains to their values; a field that is omitted is   *)
(* not in its DOMAIN.  Text is a string.  A value that may be null (the    *)
(* field tags, Optional[List[str]]) is None for null and Some(l) for the   *)
(* list l.                                                                 *)
(***************************************************************************)
EXTENDS Integers, Sequences, FiniteSets, TLC

VARIABLES
    store,      \* the collection "communitypost": documents in insertion order
    reachable,  \* whether the document store can be reached
    resp,       \* the last request and the response to it
    created,    \* the id returned and the body sent, of every post created
    failed      \* whether some request was answered 500

vars == <<store, reachable, resp, created, failed>>

----------------------------------------------------------------------------
(* Bounds of the model *)

MaxPosts == 2       \* documents the collection may hold
MaxLimit == 2       \* largest explicit ?limit=N
FirstOid == 15      \* the identity the store assigns first

(* Program constants *)

DefaultLimit == 20  \* def get_community_posts(limit: int = 20)
OidHexLen == 24     \* str(ObjectId) is 24 hexadecimal digits

----------------------------------------------------------------------------
(* JSON values *)

None == {}
Some(x) == {x}

Min(a, b) == IF a <= b THEN a ELSE b

(* The inputs the clients send *)

RequiredNames == {"title", "content", "author"}
FieldNames == RequiredNames \cup {"tags"}

(* title and content: both non-empty, or one of them the empty string *)
TitleContents == {<<"Hello", "First post">>, <<"", "First post">>, <<"Hello", "">>}
Authors == {"alice"}
TagValues == {None, Some(<<"x">>)}

Body(D, t, c, a, g) ==
    [f \in D |-> CASE f = "title" -> t
                   [] f = "content" -> c
                   [] f = "author" -> a
                   [] f = "tags" -> g]

(* Bodies with every required field, with tags (null or a list) or without *)
CompleteBodies ==
    { Body(D, tc[1], tc[2], a, g) :
        D \in {FieldNames, FieldNames \ {"tags"}}, tc \in TitleContents,
        a \in Authors, g \in TagValues }

(* Bodies that lack one required field, and the empty body *)
IncompleteBodies ==
    { Body(D, "Hello", "First post", "alice", None) :
        D \in { FieldNames \ {f} : f \in RequiredNames } \cup {{}} }

Requests == CompleteBodies \cup IncompleteBodies

(* ?limit=N with N in 0..MaxLimit, or no limit parameter (the default).  *)
(* The adapter takes a non-negative limit: negative ones are left out.   *)
Limits == (0..MaxLimit) \cup {DefaultLimit}

----------------------------------------------------------------------------
(* str(ObjectId): the identity written as OidHexLen hexadecimal digits *)

HexDigits ==
    <<"0", "1", "2", "3", "4", "5", "6", "7", "8", "9", "a", "b", "c", "d", "e", "f">>

RECURSIVE hex(_, _)
hex(n, w) ==
    IF w = 0 THEN "" ELSE hex(n \div 16, w - 1) \o HexDigits[(n % 16) + 1]

str(oid) == hex(oid, OidHexLen)

----------------------------------------------------------------------------
(* class CommunityPostIn(BaseModel): title, content and author are        *)
(* required; tags: Optional[List[str]] = [] has a default and admits null. *)

(* Variant: author given a default too *)
FieldDefaults_author == [tags |-> Some(<<>>), author |-> ""]

(* The fields that have a default, and the default *)
FieldDefaults == [tags |-> Some(<<>>)]

(* Variant: title and content declared with min_length=1 *)
MissingFields_nonempty(body) ==
    ((FieldNames \ DOMAIN FieldDefaults) \ DOMAIN body)
        \cup { f \in {"title", "content"} \cap DOMAIN body : body[f] = "" }

(* The required fields the body lacks: the request is answered 422 when   *)
(* there is one, before the handler runs.  A str field has no minimum     *)
(* length, and every value the clients send here has the type of its      *)
(* field.                                                                  *)
MissingFields(body) == (FieldNames \ DOMAIN FieldDefaults) \ DOMAIN body

(* Variant: tags: Optional[List[str]] = None *)
CommunityPostIn_tagsnull(body) ==
    [f \in FieldNames |->
        IF f \in DOMAIN body THEN body[f]
        ELSE IF f = "tags" THEN None ELSE FieldDefaults[f]]

(* The validated model: the fields sent, the default for the others *)
CommunityPostIn(body) ==
    [f \in FieldNames |-> IF f \in DOMAIN body THEN body[f] ELSE FieldDefaults[f]]

(* post.model_dump(): the dict of the model's fields *)
model_dump(post) == [f \in DOMAIN post |-> post[f]]

----------------------------------------------------------------------------
(* The document store adapter (module database).  The store assigns the   *)
(* identity oid; a call fails with a StorageError while the store cannot  *)
(* be reached.                                                             *)

insert_one(coll, doc, oid) == Append(coll, ("_id" :> oid) @@ doc)

create_document(coll, up, doc, oid) ==
    IF up
    THEN [ok |-> TRUE, coll |-> insert_one(coll, doc, oid), id |-> str(oid)]
    ELSE [ok |-> FALSE, coll |-> coll, error |-> "StorageError"]

get_documents(coll, up, limit) ==
    IF up
    THEN [ok |-> TRUE, docs |-> SubSeq(coll, 1, Min(limit, Len(coll)))]
    ELSE [ok |-> FALSE, error |-> "StorageError"]

(* The identity the store assigns to the next document: ObjectIds grow   *)
(* with every insert, so no two documents share one.                     *)
NextOid == FirstOid + Len(store)

----------------------------------------------------------------------------
(* The handlers *)

CountFailure(status) ==
    failed \/ status = 500

(* Variant: p["id"] = str(p["_id"]), the key _id not popped *)
ConvertId_keep(p) ==
    IF "_id" \in DOMAIN p
    THEN [f \in DOMAIN p \cup {"id"} |-> IF f = "id" THEN str(p["_id"]) ELSE p[f]]
    ELSE p

(* Variant: the documents returned as the store gave them *)
ConvertId_raw(p) == p

(* if "_id" in p: p["id"] = str(p.pop("_id")) *)
ConvertId(p) ==
    IF "_id" \in DOMAIN p
    THEN [f \in (DOMAIN p \ {"_id"}) \cup {"id"} |->
            IF f = "id" THEN str(p["_id"]) ELSE p[f]]
    ELSE p

(* Variant: the exception swallowed, an empty list returned *)
ListResponse_swallow(limit, r) ==
    [op |-> "list_posts", limit |-> limit, status |-> 200,
     body |-> [posts |-> IF r.ok THEN [i \in DOMAIN r.docs |-> ConvertId(r.docs[i])]
                                 ELSE <<>>]]

(* The body of get_community_posts for a result r of get_documents: the  *)
(* posts on success, HTTPException(500, str(e)) when it raised.           *)
ListResponse(limit, r) ==
    IF r.ok
    THEN [op |-> "list_posts", limit |-> limit, status |-> 200,
          body |-> [posts |-> [i \in DOMAIN r.docs |-> ConvertId(r.docs[i])]]]
    ELSE [op |-> "list_posts", limit |-> limit, status |-> 500,
          body |-> [detail |-> r.error]]

(* Variant: the default limit passed to get_documents whatever the query *)
get_community_posts_nolimit(limit) ==
    /\ resp' = ListResponse(limit, get_documents(store, reachable, DefaultLimit))
    /\ failed' = CountFailure(resp'.status)
    /\ UNCHANGED <<store, created, reachable>>

(* GET /api/community/posts?limit=N *)
get_community_posts(limit) ==
    /\ resp' = ListResponse(limit, get_documents(store, reachable, limit))
    /\ failed' = CountFailure(resp'.status)
    /\ UNCHANGED <<store, created, reachable>>

(* The body of create_community_post for a result r of create_document *)
CreateResponse(body, doc, r) ==
    IF r.ok
    THEN [op |-> "create_post", req |-> body, status |-> 200,
          sent |-> <<doc>>, body |-> [id |-> r.id, status |-> "created"]]
    ELSE [op |-> "create_post", req |-> body, status |-> 500,
          sent |-> <<doc>>, body |-> [detail |-> r.error]]

(* A body that fails validation is answered 422 and the handler never runs *)
RequestValidationError(body) ==
    /\ MissingFields(body) # {}
    /\ resp' = [op |-> "create_post", req |-> body, status |-> 422,
                sent |-> <<>>,
                body |-> [detail |-> "ValidationError", loc |-> MissingFields(body)]]
    /\ UNCHANGED <<store, created, failed, reachable>>

(* Variant: create_document called twice for one request *)
create_community_post_twice(body) ==
    /\ MissingFields(body) = {}
    /\ reachable => Len(store) < MaxPosts
    /\ LET doc == model_dump(CommunityPostIn(body))
           first == create_document(store, reachable, doc, NextOid)
           r == create_document(first.coll, reachable, doc, NextOid + 1)
       IN /\ store' = r.coll
          /\ resp' = CreateResponse(body, doc, r)
          /\ created' = IF r.ok THEN created \cup {[id |-> r.id, req |-> body]}
                                ELSE created
          /\ failed' = CountFailure(resp'.status)
          /\ UNCHANGED reachable

(* POST /api/community/posts with a body that passes validation.  The    *)
(* collection holds at most MaxPosts documents.                           *)
create_community_post(body) ==
    /\ MissingFields(body) = {}
    /\ reachable => Len(store) < MaxPosts
    /\ LET doc == model_dump(CommunityPostIn(body))
           r == create_document(store, reachable, doc, NextOid)
       IN /\ store' = r.coll
          /\ resp' = CreateResponse(body, doc, r)
          /\ created' = IF r.ok THEN created \cup {[id |-> r.id, req |-> body]}
                                ELSE created
          /\ failed' = CountFailure(resp'.status)
          /\ UNCHANGED reachable

(* The store becomes unreachable, and reachable again *)
LoseConnection ==
    /\ reachable
    /\ reachable' = FALSE
    /\ UNCHANGED <<store, resp, created, failed>>

RestoreConnection ==
    /\ ~reachable
    /\ reachable' = TRUE
    /\ UNCHANGED <<store, resp, created, failed>>

Init ==
    /\ store = <<>>
    /\ reachable \in BOOLEAN
    /\ resp = [op |-> "none"]
    /\ created = {}
    /\ failed = FALSE

Next ==
    \/ \E body \in Requests : RequestValidationError(body)
    \/ \E body \in Requests : create_community_post(body)
    \/ \E limit \in Limits : get_community_posts(limit)
    \/ LoseConnection
    \/ RestoreConnection

Spec == Init /\ [][Next]_vars

----------------------------------------------------------------------------
(* What the claims speak of *)

(* A POST /api/community/posts with this body is answered in this step *)
create_post(body) == RequestValidationError(body) \/ create_community_post(body)

(* A GET /api/community/posts?limit=N is answered in this step *)
list_posts(limit) == get_community_posts(limit)

(* This step answers a create_post, a list_posts: resp' is the request   *)
(* and its response                                                       *)
CreateAnswered == resp'.op = "create_post" /\ create_post(resp'.req)
ListAnswered == resp'.op = "list_posts" /\ list_posts(resp'.limit)

Listed == resp.op = "list_posts" /\ resp.status = 200
Posts == resp.body.posts
HasField(p, f, v) == f \in DOMAIN p /\ p[f] = v
Supplies(body, names) == names \subseteq DOMAIN body
LastStored == store[Len(store)]

(* The tags a request asks for: those it sends, the empty list when it    *)
(* sends none                                                             *)
RequestTags(body) == IF "tags" \in DOMAIN body THEN body.tags ELSE Some(<<>>)

(* C1: round-trip identity. A successful list_posts whose limit is at     *)
(* least the number of stored posts returns, for every post that a        *)
(* create_post created with id X, exactly one post whose id is X, and it  *)
(* carries the title, content, author and tags of the creating request.   *)
C1_RoundTrip ==
    (Listed /\ resp.limit >= Len(store)) =>
        \A h \in created :
            /\ Cardinality({ i \in DOMAIN Posts : HasField(Posts[i], "id", h.id) }) = 1
            /\ \A i \in DOMAIN Posts :
                  HasField(Posts[i], "id", h.id) =>
                      /\ HasField(Posts[i], "title", h.req.title)
                      /\ HasField(Posts[i], "content", h.req.content)
                      /\ HasField(Posts[i], "author", h.req.author)
                      /\ HasField(Posts[i], "tags", RequestTags(h.req))

C1_Witness ==
    /\ Listed
    /\ Cardinality(created) = 2
    /\ Len(Posts) = 2
    /\ \E h \in created : h.req.title = "" /\ "tags" \in DOMAIN h.req

(* C2: every post of a successful list_posts response has an id field    *)
(* holding a string, and none has the field _id.                          *)
C2_IdOnly ==
    Listed =>
        \A i \in DOMAIN Posts :
            /\ "id" \in DOMAIN Posts[i]
            /\ Posts[i].id \in STRING
            /\ "_id" \notin DOMAIN Posts[i]

C2_Witness == Listed /\ Len(Posts) = 2 /\ Posts[1].id # Posts[2].id

(* C3: list_posts(limit=N) returns at most N posts, and none for N = 0,   *)
(* however many posts are stored.                                         *)
C3_AtMostLimit ==
    Listed => /\ Len(Posts) <= resp.limit
              /\ resp.limit = 0 => Posts = <<>>

C3_Witness == Listed /\ resp.limit < Len(store) /\ Len(Posts) = resp.limit

(* C4: every post list_posts returns has the fields id, title, content,  *)
(* author, tags and likes, and likes is 0 for a post made by create_post. *)
C4_ListedFields ==
    Listed =>
        \A i \in DOMAIN Posts :
            /\ {"id", "title", "content", "author", "tags", "likes"}
                  \subseteq DOMAIN Posts[i]
            /\ HasField(Posts[i], "likes", 0)

(* C5: a create_post whose body omits title, content or author is        *)
(* answered 422, no call is made to the store, and the stored posts are   *)
(* the same after it as before.                                           *)
C5_MissingRequired ==
    [][(CreateAnswered /\ ~Supplies(resp'.req, RequiredNames)) =>
          /\ resp'.status = 422
          /\ resp'.sent = <<>>
          /\ store' = store]_vars

C5_Witness ==
    /\ resp.op = "create_post"
    /\ resp.status = 422
    /\ DOMAIN resp.req = FieldNames \ {"author"}
    /\ store # <<>>

(* C6 as stated: while the store is unreachable every create_post and     *)
(* every list_posts is answered 500, and once it is reachable again,      *)
(* after calls that failed, every one succeeds.                           *)
C6_EveryCall ==
    [][(CreateAnswered \/ ListAnswered) =>
          /\ ~reachable => resp'.status = 500
          /\ (reachable /\ failed) => resp'.status = 200]_vars

(* C6, amended: while the store is unreachable every create_post whose    *)
(* body passes validation and every list_posts is answered 500, and every *)
(* request is still accepted; while the store is reachable, whatever      *)
(* failed before, every such create_post and every list_posts succeeds.   *)
(* (A body that fails validation is answered 422 in both cases.)          *)
C6_StoreOutage ==
    /\ [](~reachable =>
            /\ \A body \in Requests : ENABLED create_post(body)
            /\ \A limit \in Limits : ENABLED list_posts(limit))
    /\ [][/\ (CreateAnswered /\ Supplies(resp'.req, RequiredNames)) =>
                resp'.status = IF reachable THEN 200 ELSE 500
          /\ (CreateAnswered /\ ~Supplies(resp'.req, RequiredNames)) =>
                resp'.status = 422
          /\ ListAnswered =>
                resp'.status = IF reachable THEN 200 ELSE 500]_vars

C6_Witness == failed /\ reachable /\ Listed /\ Len(Posts) = 1

(* C7 as stated: every create_post that supplies title, content and       *)
(* author and omits tags succeeds with {id, status: "created"}, and the   *)
(* document passed to the store has tags equal to the empty sequence.     *)
C7_AlwaysCreated ==
    (/\ resp.op = "create_post"
     /\ Supplies(resp.req, RequiredNames)
     /\ "tags" \notin DOMAIN resp.req) =>
        /\ resp.status = 200
        /\ DOMAIN resp.body = {"id", "status"}
        /\ resp.body.status = "created"
        /\ Len(resp.sent) = 1
        /\ HasField(resp.sent[1], "tags", Some(<<>>))

(* C7, amended: for every create_post that supplies title, content and    *)
(* author and omits tags, the document passed to the store has tags equal *)
(* to the empty sequence, and while the store is reachable the call       *)
(* succeeds with {id, status: "created"} and stores that document.        *)
C7_TagsDefault ==
    [][(/\ CreateAnswered
        /\ Supplies(resp'.req, RequiredNames)
        /\ "tags" \notin DOMAIN resp'.req) =>
           /\ Len(resp'.sent) = 1
           /\ HasField(resp'.sent[1], "tags", Some(<<>>))
           /\ resp'.status = IF reachable THEN 200 ELSE 500
           /\ reachable =>
                 /\ DOMAIN resp'.body = {"id", "status"}
                 /\ resp'.body.status = "created"
                 /\ Len(store') = Len(store) + 1
                 /\ HasField(store'[Len(store')], "tags", Some(<<>>))]_vars

C7_Witness ==
    /\ resp.op = "create_post"
    /\ resp.status = 200
    /\ "tags" \notin DOMAIN resp.req
    /\ resp.sent[1].tags = Some(<<>>)
    /\ LastStored.tags = Some(<<>>)

(* C8 as stated: every stored post has a non-empty title and a non-empty  *)
(* content.                                                               *)
C8_NonEmptyText ==
    \A i \in DOMAIN store : store[i].title # "" /\ store[i].content # ""

(* C8, amended: every stored post has the title and the content of its    *)
(* request, which are text and may be empty: a create_post whose title or *)
(* content is the empty string passes validation like any other and,      *)
(* while the store is reachable, is stored with that title and content.   *)
C8_TextVerbatim ==
    /\ [](\A i \in DOMAIN store :
             store[i].title \in STRING /\ store[i].content \in STRING)
    /\ [][(CreateAnswered /\ Supplies(resp'.req, RequiredNames)) =>
             /\ resp'.status = IF reachable THEN 200 ELSE 500
             /\ reachable =>
                   /\ Len(store') = Len(store) + 1
                   /\ HasField(store'[Len(store')], "title", resp'.req.title)
                   /\ HasField(store'[Len(store')], "content", resp'.req.content)]_vars

C8_Witness ==
    /\ resp.op = "create_post"
    /\ resp.status = 200
    /\ \E i \in DOMAIN store : store[i].title = ""
    /\ \E i \in DOMAIN store : store[i].content = ""

(* C9: the tags of every stored post is a sequence of text labels, never  *)
(* null or absent, also when the request sent tags as null.               *)
C9_TagsNeverNull ==
    \A i \in DOMAIN store :
        /\ "tags" \in DOMAIN store[i]
        /\ store[i].tags # None
        /\ \A l \in store[i].tags : \A k \in DOMAIN l : l[k] \in STRING

(* C10: stored posts are stable. list_posts leaves the collection as it   *)
(* is, a create_post that succeeds adds exactly one document, one that    *)
(* fails adds none, and every document stored before a step is stored     *)
(* after it with the same id and the same field values.                   *)
C10_StoredStable ==
    [][/\ \A i \in DOMAIN store : \E j \in DOMAIN store' : store'[j] = store[i]
       /\ ListAnswered => store' = store
       /\ CreateAnswered =>
             IF resp'.status = 200
             THEN /\ Len(store') = Len(store) + 1
                  /\ SubSeq(store', 1, Len(store)) = store
             ELSE store' = store]_vars

C10_Witness ==
    /\ Len(store) = 2
    /\ resp.op = "create_post"
    /\ resp.status = 500
    /\ store[1]["_id"] # store[2]["_id"]

====
